---- MODULE Spec2Model ----
(***************************************************************************)
(* Model of the DeepseekAI chat relay: src/app.py (ChatApp: startup, the   *)
(* /chat/<chat_id> and /send_message handlers over the in-memory           *)
(* chat_histories dictionary, and the /upload_attachment handler over the  *)
(* files of the upload directory) and src/ollama_client.py (OllamaClient:  *)
(* the gateway's initialization sequence and generate_response).           *)
(*                                                                         *)
(* Requests are served by worker threads (Flask's development server is    *)
(* threaded); the handlers take no lock, so a thread switch may fall       *)
(* between any two statements that touch self.chat_histories.  Statements  *)
(* that only touch a handler's locals are folded into the neighbouring     *)
(* step.  `self.chat_histories[chat_id].extend(...)` is one step: a switch *)
(* between its subscript and the extend call gives the same dictionary     *)
(* contents as running the extend first.                                   *)
(*                                                                         *)
(* The backend and the clock are seen only through the calls made to them: *)
(* each call of the initialization is answered or not, whatever the call   *)
(* before it met, and each datetime.now() gives a time not earlier than    *)
(* the reading before.                                                     *)
(***************************************************************************)
EXTENDS Integers, Sequences, FiniteSets, TLC

(* ------------------------------ bounds --------------------------------- *)

\* Number of requests received in one run, each handled on its own thread;
\* they are numbered in their order of arrival.
MaxReqs == 2

\* Largest value of the wall clock.
MaxClock == 1

Workers == 1..MaxReqs

ChatIds == {"c1", "c2"}

\* Message texts are sequences of characters.
Messages == {<<>>, <<" ">>, <<" ", "a">>}

\* Texts the backend may generate.
Replies == {<<"h", "i">>, <<"o", "k">>}

\* request.form of a POST /send_message: a dictionary that may lack a field.
Forms ==
  [chat_id : ChatIds, message : Messages]
    \cup {[chat_id |-> "c1"], [message |-> <<" ", "a">>]}

VARIABLES
  serviceUp,        \* startup: the Ollama service answered the latest call
  modelPresent,     \* backend: deepseek-r1:7b is registered
  initPc,           \* position inside OllamaClient._initialize_client
  showOutcome,      \* what client.show(model_name) did, while startup lasts
  initError,        \* exception raised by OllamaClient.__init__, if any
  appPc,            \* position of the __main__ block / ChatApp.__init__
  startError,       \* exception seen by the caller of ChatApp(...)
  chat_histories,   \* self.chat_histories: chat_id -> list of ChatMessage
  clock,            \* the wall clock, as of its latest reading
  req,              \* per request: the handler's position and its locals
  files             \* the file system: path -> bytes of the file there

vars == <<serviceUp, modelPresent, initPc, showOutcome, initError, appPc,
          startError, chat_histories, clock, req, files>>

backendVars == <<serviceUp, modelPresent>>
initVars == <<initPc, showOutcome, initError>>
appVars == <<appPc, startError>>

(* ------------------------------ values --------------------------------- *)

\* ChatMessage(content, timestamp, is_user, attachment_path=None)
ChatMessage(content, timestamp, is_user) ==
  [content |-> content, timestamp |-> timestamp, is_user |-> is_user,
   attachment_path |-> "None"]

NoMessage == ChatMessage(<<>>, -1, FALSE)

\* No exception.
NoError == [type |-> "None", msg |-> <<>>]

\* RuntimeError(f"{prefix}: {str(e)}"): the message is the prefix followed by
\* the wrapped exception's message.
RuntimeError(prefix, cause) ==
  [type |-> "RuntimeError", msg |-> <<prefix>> \o cause.msg]

\* An exception raised by the ollama library.
BackendError(type) == [type |-> type, msg |-> <<type>>]

\* datetime.isoformat()
IsoFormat(t) == <<"iso8601", t>>

\* str.isspace for one character
IsSpace(ch) == ch \in {" ", "\t", "\n"}

RECURSIVE LStrip(_)
LStrip(s) ==
  IF s = <<>> THEN s
  ELSE IF IsSpace(Head(s)) THEN LStrip(Tail(s)) ELSE s

RECURSIVE RStrip(_)
RStrip(s) ==
  IF s = <<>> THEN s
  ELSE IF IsSpace(s[Len(s)]) THEN RStrip(SubSeq(s, 1, Len(s) - 1)) ELSE s

\* str.strip()
Strip(s) == RStrip(LStrip(s))

\* jsonify(...) with its HTTP status code
JsonError(code, message) ==
  [code |-> code, body |-> [status |-> "error", message |-> message]]

JsonSuccess(response, timestamp) ==
  [code |-> 200,
   body |-> [status |-> "success", response |-> response,
             timestamp |-> timestamp]]

\* render_template('chat.html', ...)
ChatPage == [code |-> 200, body |-> [template |-> "chat.html"]]

NoResult == [code |-> 0, body |-> [status |-> "none"]]

\* A request that has not arrived yet.
IdleReq ==
  [pc |-> "idle", kind |-> "none", form |-> <<>>,
   chat_id |-> "none", message |-> <<>>,
   user_message |-> NoMessage, response |-> <<>>, model_message |-> NoMessage,
   sent |-> <<>>, view |-> <<>>, upload |-> <<>>, result |-> NoResult,
   solo |-> FALSE, h0 |-> <<>>]

InFlight(w) == req[w].pc \notin {"idle", "done"}

(* --------------------------- initial state ----------------------------- *)

Init ==
  /\ serviceUp = FALSE
  /\ modelPresent \in BOOLEAN
  /\ initPc = "uninit"
  /\ showOutcome = "none"
  /\ initError = NoError
  /\ appPc = "main"
  /\ startError = NoError
  /\ chat_histories = [c \in {} |-> <<>>]
  /\ clock = 0
  /\ req = [w \in Workers |-> IdleReq]
  /\ files = [p \in {} |-> <<>>]

(* ---------------------------- environment ------------------------------ *)

\* A call of the initialization reaches the backend: the service, which may
\* have stopped or started since the call before, answers it (up) or does not.
BackendCall(up) == serviceUp' = up

\* datetime.now() gives t: the clock never runs backwards, and any time may
\* have passed since the reading before.
Now(t) ==
  /\ t \in clock..MaxClock
  /\ clock' = t

(* ------------------- gateway initialization (startup) ------------------ *)

\* The initialization protocol state the gateway is in.
GatewayState ==
  CASE initPc = "uninit" -> "Uninitialized"
    [] initPc = "check_service" -> "CheckingService"
    [] initPc \in {"list_models", "show", "create"} -> "CheckingModel"
    [] initPc = "ready" -> "Ready"
    [] initPc = "failed" -> "Failed"

\* _check_ollama_service's own RuntimeError (the cause is logged, not wrapped).
ServiceNotRunning ==
  [type |-> "RuntimeError", msg |-> <<"Ollama service is not running">>]

\* Variant of InitializeClientError: a bare `raise` of the caught exception.
InitializeClientErrorReraised(e) == e

\* _initialize_client: except Exception as e: raise RuntimeError(...)
InitializeClientError(e) == RuntimeError("Failed to initialize client", e)

\* load_model(model_path): builds the gateway; its exception propagates.
load_model_error(e) == e

\* ChatApp._initialize_model: except Exception as e: raise RuntimeError(...)
InitializeModelError(e) ==
  RuntimeError("Failed to load model", load_model_error(e))

\* The exception leaves _initialize_client and so OllamaClient.__init__.
InitFails(e) ==
  /\ initPc' = "failed"
  /\ initError' = InitializeClientError(e)

\* __main__: ChatApp(MODEL_PATH, ...) -> __init__ -> _initialize_model ->
\* load_model -> OllamaClient.__init__ -> _initialize_client.
Main ==
  /\ appPc = "main"
  /\ appPc' = "init_model"
  /\ initPc' = "check_service"
  /\ UNCHANGED <<backendVars, showOutcome, initError, startError,
                 chat_histories, clock, req, files>>

\* self._check_ollama_service(): Client().list()
CheckOllamaService ==
  /\ initPc = "check_service"
  /\ \E up \in BOOLEAN :
       /\ BackendCall(up)
       /\ IF up
            THEN initPc' = "list_models" /\ UNCHANGED initError
            ELSE InitFails(ServiceNotRunning)
  /\ UNCHANGED <<modelPresent, showOutcome, appVars, chat_histories, clock,
                 req, files>>

\* models = client.list()
ListModels ==
  /\ initPc = "list_models"
  /\ \E up \in BOOLEAN :
       /\ BackendCall(up)
       /\ IF up
            THEN initPc' = "show" /\ UNCHANGED initError
            ELSE InitFails(BackendError("ConnectionError"))
  /\ UNCHANGED <<modelPresent, showOutcome, appVars, chat_histories, clock,
                 req, files>>

\* What client.show(model_name) does: returns, or raises ResponseError (the
\* model is not registered) or ConnectionError (the service does not answer).
ShowResult(up) ==
  IF ~up THEN "unreachable"
  ELSE IF modelPresent THEN "found" ELSE "absent"

\* try: client.show(model_name) except Exception: (fall through to create)
ShowModel ==
  /\ initPc = "show"
  /\ \E up \in BOOLEAN :
       /\ BackendCall(up)
       /\ showOutcome' = ShowResult(up)
       /\ initPc' = IF ShowResult(up) = "found" THEN "ready" ELSE "create"
  /\ UNCHANGED <<modelPresent, initError, appVars, chat_histories, clock, req,
                 files>>

\* client.create(model_name, path=self.model_path); the path may or may not
\* hold a loadable model.
CreateModel ==
  /\ initPc = "create"
  /\ \E up \in BOOLEAN, loadable \in BOOLEAN :
       /\ BackendCall(up)
       /\ IF up /\ loadable
            THEN /\ modelPresent' = TRUE
                 /\ initPc' = "ready"
                 /\ UNCHANGED initError
            ELSE /\ InitFails(BackendError(IF up THEN "ResponseError"
                                           ELSE "ConnectionError"))
                 /\ UNCHANGED modelPresent
  /\ UNCHANGED <<showOutcome, appVars, chat_histories, clock, req, files>>

\* The gateway is built (the locals of _initialize_client are gone): __init__
\* goes on (chat_histories = {}, routes, upload folder) and __main__ calls
\* chat_app.run().
ConstructOk ==
  /\ appPc = "init_model"
  /\ initPc = "ready"
  /\ appPc' = "serving"
  /\ showOutcome' = "none"
  /\ chat_histories' = [c \in {} |-> <<>>]
  /\ UNCHANGED <<backendVars, initPc, initError, startError, clock, req,
                 files>>

\* Variant of ConstructFail: the exception is logged and swallowed, and the
\* application goes on to serve.
ConstructFailThenServes ==
  /\ appPc = "init_model"
  /\ initPc = "failed"
  /\ appPc' = "serving"
  /\ startError' = InitializeModelError(initError)
  /\ UNCHANGED <<backendVars, initVars, chat_histories, clock, req, files>>

\* The gateway's exception is wrapped by _initialize_model, logged and
\* re-raised by __init__, printed by __main__, and the process ends.
ConstructFail ==
  /\ appPc = "init_model"
  /\ initPc = "failed"
  /\ appPc' = "exited"
  /\ startError' = InitializeModelError(initError)
  /\ UNCHANGED <<backendVars, initVars, chat_histories, clock, req, files>>


(* ------------------------- request bookkeeping ------------------------- *)

\* Request w arrives and its handler starts, leaving it in record r.  The
\* record notes whether no other request is in flight (solo) and, if so, the
\* dictionary as it is now (h0); a request already on record stops being solo
\* when another one arrives.
Accept(w, r) ==
  /\ appPc = "serving"
  /\ req[w].pc = "idle"
  /\ \A u \in Workers : u < w => req[u].pc # "idle"
  /\ LET alone == \A u \in Workers \ {w} : ~InFlight(u) IN
     req' = [v \in Workers |->
               IF v = w
                 THEN [r EXCEPT !.solo = alone,
                                !.h0 = IF alone THEN chat_histories ELSE <<>>]
                 ELSE [req[v] EXCEPT !.solo = FALSE, !.h0 = <<>>]]

\* Variant of SetEmpty: the whole dictionary is reset along with the entry.
SetEmptyAll(h, c) == [k \in DOMAIN h \cup {c} |-> <<>>]

\* self.chat_histories[chat_id] = []
SetEmpty(h, c) ==
  [k \in DOMAIN h \cup {c} |-> IF k = c THEN <<>> ELSE h[k]]

\* self.chat_histories[chat_id].extend(msgs)
Extend(h, c, msgs) == [h EXCEPT ![c] = h[c] \o msgs]

(* --------------------------- GET /chat/<id> ---------------------------- *)

\* Variant of Chat: the list is reset without the membership test.
ChatAlwaysCreates(w, c) ==
  /\ Accept(w, [IdleReq EXCEPT
                  !.kind = "chat", !.chat_id = c, !.pc = "chat_create"])
  /\ UNCHANGED <<files, backendVars, initVars, appVars, chat_histories, clock>>

\* chat(chat_id), line 74: if chat_id not in self.chat_histories
Chat(w, c) ==
  /\ Accept(w, [IdleReq EXCEPT
                  !.kind = "chat", !.chat_id = c,
                  !.pc = IF c \in DOMAIN chat_histories
                           THEN "chat_render" ELSE "chat_create"])
  /\ UNCHANGED <<files, backendVars, initVars, appVars, chat_histories, clock>>

\* line 75: self.chat_histories[chat_id] = []
ChatCreate(w) ==
  /\ req[w].pc = "chat_create"
  /\ chat_histories' = SetEmpty(chat_histories, req[w].chat_id)
  /\ req' = [req EXCEPT ![w].pc = "chat_render"]
  /\ UNCHANGED <<files, backendVars, initVars, appVars, clock>>

\* lines 76-80: render the page from self.chat_histories[chat_id]
ChatRender(w) ==
  /\ req[w].pc = "chat_render"
  /\ req' = [req EXCEPT ![w].pc = "done",
                        ![w].view = chat_histories[req[w].chat_id],
                        ![w].result = ChatPage]
  /\ UNCHANGED <<files, backendVars, initVars, appVars, chat_histories, clock>>

(* -------------------------- POST /send_message ------------------------- *)

\* Variant of Rejected: the test is `if not message`, without strip().
RejectedOnlyIfEmpty(message) == message = <<>>

\* lines 88-92: the message is rejected when nothing is left after strip()
Rejected(message) == Strip(message) = <<>>

\* Variant of InternalServerError: send_message has no catch-all handler, so
\* the form's BadRequestKeyError leaves it and Flask answers with its own
\* Bad Request page.
KeyErrorEscapes == [code |-> 400, body |-> [template |-> "Bad Request"]]

\* lines 127-132: except Exception -> 500 'Internal server error'
InternalServerError == JsonError(500, "Internal server error")

\* lines 84-99: read the form, validate, build the user message
SendMessage(w, form) ==
  IF ~({"chat_id", "message"} \subseteq DOMAIN form)
    THEN \* KeyError, caught at line 127
         /\ Accept(w, [IdleReq EXCEPT
                         !.kind = "send", !.pc = "done", !.form = form,
                         !.result = InternalServerError])
         /\ UNCHANGED <<files, backendVars, initVars, appVars, chat_histories,
                        clock>>
    ELSE IF Rejected(form.message)
      THEN /\ Accept(w, [IdleReq EXCEPT
                           !.kind = "send", !.pc = "done", !.form = form,
                           !.chat_id = form.chat_id, !.message = form.message,
                           !.result = JsonError(400, "Empty message")])
           /\ UNCHANGED <<files, backendVars, initVars, appVars, chat_histories,
                          clock>>
      ELSE /\ \E t \in 0..MaxClock :
                /\ Now(t)
                /\ Accept(w, [IdleReq EXCEPT
                                !.kind = "send", !.pc = "generate",
                                !.form = form,
                                !.chat_id = form.chat_id,
                                !.message = form.message,
                                !.user_message =
                                   ChatMessage(form.message, t, TRUE)])
           /\ UNCHANGED <<files, backendVars, initVars, appVars,
                          chat_histories>>

\* Variant of ChatRequest: the prompt is the stripped message.
ChatRequestStripped(message) ==
  <<[role |-> "user", content |-> Strip(message)]>>

\* OllamaClient.generate_response: the messages list given to client.chat
ChatRequest(message) == <<[role |-> "user", content |-> message]>>

\* Variant of GenerateFails: the user message is stored before the gateway is
\* called, so a failed call leaves it in the history.
GenerateFailsKeepsUserMessage(w) ==
  /\ req' = [req EXCEPT ![w].pc = "done",
                        ![w].sent = ChatRequest(req[w].message),
                        ![w].result =
                           JsonError(500, "Failed to generate response")]
  /\ UNCHANGED clock
  /\ chat_histories' =
       Extend(IF req[w].chat_id \in DOMAIN chat_histories
                THEN chat_histories
                ELSE SetEmpty(chat_histories, req[w].chat_id),
              req[w].chat_id, <<req[w].user_message>>)

\* lines 109-114: the gateway raised; nothing is stored
GenerateFails(w) ==
  /\ req' = [req EXCEPT ![w].pc = "done",
                        ![w].sent = ChatRequest(req[w].message),
                        ![w].result =
                           JsonError(500, "Failed to generate response")]
  /\ UNCHANGED <<chat_histories, clock>>

\* lines 103-108: the gateway returned reply; build the model message
GenerateReturns(w, reply) ==
  /\ \E t \in 0..MaxClock :
       /\ Now(t)
       /\ req' = [req EXCEPT ![w].pc = "store_check",
                             ![w].sent = ChatRequest(req[w].message),
                             ![w].response = reply,
                             ![w].model_message = ChatMessage(reply, t, FALSE)]
  /\ UNCHANGED chat_histories

\* self.model.generate_response(message): client.chat(...) returns a reply
\* or raises (the service does not answer, or answers with an error).
GenerateResponse(w) ==
  /\ req[w].pc = "generate"
  /\ \E up \in BOOLEAN, reply \in Replies :
       IF up /\ modelPresent
         THEN GenerateReturns(w, reply)
         ELSE GenerateFails(w)
  /\ UNCHANGED <<files, backendVars, initVars, appVars>>

\* line 117: if chat_id not in self.chat_histories
StoreCheck(w) ==
  /\ req[w].pc = "store_check"
  /\ req' = [req EXCEPT ![w].pc =
               IF req[w].chat_id \in DOMAIN chat_histories
                 THEN "store_extend" ELSE "store_create"]
  /\ UNCHANGED <<files, backendVars, initVars, appVars, chat_histories, clock>>

\* line 118: self.chat_histories[chat_id] = []
StoreCreate(w) ==
  /\ req[w].pc = "store_create"
  /\ chat_histories' = SetEmpty(chat_histories, req[w].chat_id)
  /\ req' = [req EXCEPT ![w].pc = "store_extend"]
  /\ UNCHANGED <<files, backendVars, initVars, appVars, clock>>

\* Variant of NewMessages: the user's message is stored without the reply.
NewMessagesUserOnly(user_message, model_message) == <<user_message>>

\* Variant of NewMessages: the reply is stored before the message.
NewMessagesReplyFirst(user_message, model_message) ==
  <<model_message, user_message>>

\* line 119: the list [user_message, model_message]
NewMessages(user_message, model_message) == <<user_message, model_message>>

\* lines 119-125: extend the history and answer
StoreExtend(w) ==
  /\ req[w].pc = "store_extend"
  /\ chat_histories' =
       Extend(chat_histories, req[w].chat_id,
              NewMessages(req[w].user_message, req[w].model_message))
  /\ req' = [req EXCEPT ![w].pc = "done",
                        ![w].result =
                           JsonSuccess(req[w].response,
                                       IsoFormat(req[w].model_message.timestamp))]
  /\ UNCHANGED <<files, backendVars, initVars, appVars, clock>>

(* ------------------------ POST /upload_attachment ---------------------- *)

\* File names are sequences of characters, file contents sequences of bytes.
Txt == <<"t", "x", "t">>

\* allowed_extensions, line 151
allowed_extensions ==
  {Txt, <<"p", "d", "f">>, <<"p", "n", "g">>, <<"j", "p", "g">>,
   <<"j", "p", "e", "g">>, <<"g", "i", "f">>}

\* file.filename as sent by the client ('' when no file was selected):
\* "", "a", "a.exe", "a.txt", "../a.txt", ".TXT".
Filenames ==
  {<<>>, <<"a">>, <<"a", ".", "e", "x", "e">>, <<"a", ".">> \o Txt,
   <<".", ".", "/", "a", ".">> \o Txt, <<".", "T", "X", "T">>}

\* The bytes of an uploaded file.
Contents == {<<>>, <<"b1", "b2">>}

\* request.files
FilesDicts ==
  {<<>>} \cup {[file |-> f] : f \in [filename : Filenames, content : Contents]}

\* A POST /upload_attachment: its multipart body is larger than
\* MAX_CONTENT_LENGTH (oversize), or it parses into the dictionary `files`.
Uploads ==
  {[oversize |-> TRUE, files |-> <<>>]}
    \cup {[oversize |-> FALSE, files |-> d] : d \in FilesDicts}

UpperCase ==
  <<"A", "B", "C", "D", "E", "F", "G", "H", "I", "J", "K", "L", "M",
    "N", "O", "P", "Q", "R", "S", "T", "U", "V", "W", "X", "Y", "Z">>

LowerCase ==
  <<"a", "b", "c", "d", "e", "f", "g", "h", "i", "j", "k", "l", "m",
    "n", "o", "p", "q", "r", "s", "t", "u", "v", "w", "x", "y", "z">>

Digits == {"0", "1", "2", "3", "4", "5", "6", "7", "8", "9"}

\* str.lower(), character by character
LowerChar(ch) ==
  IF \E i \in 1..Len(UpperCase) : UpperCase[i] = ch
    THEN LowerCase[CHOOSE i \in 1..Len(UpperCase) : UpperCase[i] = ch]
    ELSE ch

Lower(s) == [i \in 1..Len(s) |-> LowerChar(s[i])]

\* '.' in filename
HasDot(s) == \E i \in 1..Len(s) : s[i] = "."

\* filename.rsplit('.', 1)[1]: what follows the last dot
RSplitDot(s) ==
  LET last == CHOOSE i \in 1..Len(s) :
                s[i] = "." /\ \A j \in (i + 1)..Len(s) : s[j] # "."
  IN SubSeq(s, last + 1, Len(s))

\* Variant of allowed_file: any extension passes.
allowed_file_any_extension(filename, allowed) == HasDot(filename)

\* _allowed_file, lines 184-188
allowed_file(filename, allowed) ==
  HasDot(filename) /\ Lower(RSplitDot(filename)) \in allowed

\* werkzeug's _filename_ascii_strip_re keeps [A-Za-z0-9_.-]
FilenameChars ==
  {UpperCase[i] : i \in 1..Len(UpperCase)}
    \cup {LowerCase[i] : i \in 1..Len(LowerCase)}
    \cup Digits \cup {"_", ".", "-"}

\* filename.replace(os.path.sep, " ")
ReplaceSep(s) == [i \in 1..Len(s) |-> IF s[i] = "/" THEN " " ELSE s[i]]

\* "_".join(s.split()): runs of whitespace inside s become one underscore,
\* those at its ends go.
RECURSIVE JoinRuns(_)
JoinRuns(s) ==
  IF s = <<>> THEN <<>>
  ELSE IF IsSpace(Head(s))
    THEN IF Len(s) > 1 /\ IsSpace(s[2])
           THEN JoinRuns(Tail(s))
           ELSE <<"_">> \o JoinRuns(Tail(s))
    ELSE <<Head(s)>> \o JoinRuns(Tail(s))

JoinSplit(s) == JoinRuns(Strip(s))

RECURSIVE LStripChars(_, _)
LStripChars(s, chars) ==
  IF s = <<>> THEN s
  ELSE IF Head(s) \in chars THEN LStripChars(Tail(s), chars) ELSE s

RECURSIVE RStripChars(_, _)
RStripChars(s, chars) ==
  IF s = <<>> THEN s
  ELSE IF s[Len(s)] \in chars
    THEN RStripChars(SubSeq(s, 1, Len(s) - 1), chars) ELSE s

\* str.strip(chars)
StripChars(s, chars) == RStripChars(LStripChars(s, chars), chars)

\* Variant of secure_filename: the client's name is used as it came.
secure_filename_unchanged(filename) == filename

\* werkzeug.utils.secure_filename on an ASCII name: path separators become
\* spaces, whitespace runs become '_', characters outside [A-Za-z0-9_.-] are
\* dropped, and dots and underscores are stripped from both ends.
secure_filename(filename) ==
  StripChars(SelectSeq(JoinSplit(ReplaceSep(filename)),
                       LAMBDA ch : ch \in FilenameChars),
             {".", "_"})

\* A path is the sequence of its components.  Paths are relative to the
\* working directory unless they start with Root.
Root == <<"/">>

DotDot == <<".", ".">>

\* UPLOAD_FOLDER = Path('uploads'), line 205
UPLOAD_FOLDER == <<<<"u", "p", "l", "o", "a", "d", "s">>>>

\* The components of a name, split at the path separator.
RECURSIVE SplitSep(_)
SplitSep(s) ==
  IF \A i \in 1..Len(s) : s[i] # "/" THEN <<s>>
  ELSE LET i == CHOOSE k \in 1..Len(s) :
                  s[k] = "/" /\ \A j \in 1..(k - 1) : s[j] # "/"
       IN <<SubSeq(s, 1, i - 1)>> \o SplitSep(SubSeq(s, i + 1, Len(s)))

\* Path(folder) / name, line 159: an absolute name replaces the folder; empty
\* and '.' components are dropped, '..' components are kept.
PathJoin(folder, name) ==
  LET parts == SelectSeq(SplitSep(name),
                         LAMBDA c : c # <<>> /\ c # <<".">>)
  IN IF name # <<>> /\ name[1] = "/" THEN <<Root>> \o parts
     ELSE folder \o parts

\* The file a path names when it is opened: each '..' leaves the directory
\* reached so far.
RECURSIVE Resolve(_)
Resolve(path) ==
  IF path = <<>> THEN <<>>
  ELSE LET dir == Resolve(SubSeq(path, 1, Len(path) - 1))
           c == path[Len(path)]
       IN IF c # DotDot THEN dir \o <<c>>
          ELSE IF dir = <<Root>> THEN dir
          ELSE IF dir = <<>> \/ dir[Len(dir)] = DotDot THEN dir \o <<c>>
          ELSE SubSeq(dir, 1, Len(dir) - 1)

\* The path names a directory that exists: the working directory, the root or
\* the upload folder (created at line 47).
IsDirectory(path) ==
  path \in {<<>>, <<Root>>} \cup
           {SubSeq(UPLOAD_FOLDER, 1, n) : n \in 1..Len(UPLOAD_FOLDER)}

\* What file.save(file_path) may do with the content: open() raises; or the
\* file is opened for writing, which creates or empties it, `written` bytes
\* reach it, and then the call returns or raises.
SaveOutcomes(content) ==
  {[opened |-> FALSE, written |-> 0, raised |-> TRUE]}
    \cup {[opened |-> TRUE, written |-> k, raised |-> TRUE] :
            k \in 0..Len(content)}
    \cup {[opened |-> TRUE, written |-> Len(content), raised |-> FALSE]}

\* file.save(file_path), line 163: the file system it leaves
FileSave(fs, file_path, content, o) ==
  IF o.opened
    THEN [p \in DOMAIN fs \cup {Resolve(file_path)} |->
            IF p = Resolve(file_path) THEN SubSeq(content, 1, o.written)
            ELSE fs[p]]
    ELSE fs

\* lines 171-175
JsonUploaded(filename, file_path) ==
  [code |-> 200,
   body |-> [status |-> "success", filename |-> filename, path |-> file_path]]

\* lines 177-182: except Exception -> 500 'Internal server error'
UploadInternalError == JsonError(500, "Internal server error")

\* upload_attachment, lines 134-182, as one step: the handler shares nothing
\* with the other handlers but the file system, which it touches in the one
\* call of file.save.  A body larger than MAX_CONTENT_LENGTH (line 22) makes
\* the first use of request.files raise RequestEntityTooLarge, inside the try.
UploadAttachment(w, u) ==
  LET Answer(r) ==
        Accept(w, [IdleReq EXCEPT !.kind = "upload", !.pc = "done",
                                  !.upload = u, !.result = r])
  IN
  /\ req[w].pc = "idle"
  /\ IF u.oversize
       THEN Answer(UploadInternalError) /\ UNCHANGED files
     ELSE IF "file" \notin DOMAIN u.files
       THEN Answer(JsonError(400, "No file part")) /\ UNCHANGED files
     ELSE IF u.files.file.filename = <<>>
       THEN Answer(JsonError(400, "No selected file")) /\ UNCHANGED files
     ELSE IF ~allowed_file(u.files.file.filename, allowed_extensions)
       THEN Answer(JsonError(400, "File type not allowed")) /\ UNCHANGED files
     ELSE LET filename == secure_filename(u.files.file.filename)
              file_path == PathJoin(UPLOAD_FOLDER, filename)
          IN \E o \in SaveOutcomes(u.files.file.content) :
               /\ o.opened => ~IsDirectory(Resolve(file_path))
               /\ files' = FileSave(files, file_path,
                                    u.files.file.content, o)
               /\ Answer(IF o.raised
                           THEN JsonError(500, "Failed to save file")
                           ELSE JsonUploaded(filename, file_path))
  /\ UNCHANGED <<backendVars, initVars, appVars, chat_histories, clock>>

(* ---------------------------- specification ---------------------------- *)

Next ==
  \/ Main
  \/ CheckOllamaService
  \/ ListModels
  \/ ShowModel
  \/ CreateModel
  \/ ConstructOk
  \/ ConstructFail
  \/ \E w \in Workers, c \in ChatIds : Chat(w, c)
  \/ \E w \in Workers : ChatCreate(w)
  \/ \E w \in Workers : ChatRender(w)
  \/ \E w \in Workers, form \in Forms : SendMessage(w, form)
  \/ \E w \in Workers : GenerateResponse(w)
  \/ \E w \in Workers : StoreCheck(w)
  \/ \E w \in Workers : StoreCreate(w)
  \/ \E w \in Workers : StoreExtend(w)
  \/ \E w \in Workers, u \in Uploads : UploadAttachment(w, u)

Spec == Init /\ [][Next]_vars


(* ------------------------------- claims -------------------------------- *)

HasForm(r) == {"chat_id", "message"} \subseteq DOMAIN r.form

Done200(w) ==
  req[w].kind = "send" /\ req[w].pc = "done" /\ req[w].result.code = 200

GenerationFailed == JsonError(500, "Failed to generate response")

\* The list stored for c in dictionary h, an unseen c counting as empty.
Stored(h, c) == IF c \in DOMAIN h THEN h[c] ELSE <<>>

\* Every character of s is whitespace (s may be empty).
IsBlank(s) == \A i \in 1..Len(s) : IsSpace(s[i])

\* C1, step by step: a step of a send_message request that leaves it waiting
\* for the gateway, or ends it with the gateway's failure, changes no history
\* and creates no chat id; and a request that leaves the gateway call without
\* a reply ends with 500 'Failed to generate response'.
C1_FailureSteps ==
  \A w \in Workers :
    /\ ( /\ req'[w] # req[w]
         /\ req'[w].kind = "send"
         /\ \/ req'[w].pc = "generate"
            \/ req'[w].pc = "done" /\ req'[w].result = GenerationFailed )
       => chat_histories' = chat_histories
    /\ (req[w].pc = "generate" /\ req'[w].pc = "done")
       => req'[w].result = GenerationFailed

\* C1, whole request: when no other request ran meanwhile, the dictionary after
\* a request that ended with the gateway's failure is the one it started with.
C1_FailureWhole ==
  \A w \in Workers :
    (req[w].pc = "done" /\ req[w].result = GenerationFailed /\ req[w].solo)
      => chat_histories = req[w].h0

\* C1: if the gateway fails during a send_message for chat id c, the history
\* stored for c after the request is the one before it (no user message, no
\* model message, c not created if unseen), and the caller gets 500 'Failed to
\* generate response'.
C1_GatewayFailureStoresNothing ==
  [][C1_FailureSteps]_vars /\ []C1_FailureWhole

\* C1 witness: a request failed at the gateway for a chat id that held a
\* pair of messages, and the pair is what the chat id still holds.
C1_Witness ==
  /\ req[2].kind = "send" /\ req[2].pc = "done"
  /\ req[2].result = GenerationFailed
  /\ req[2].sent # <<>>
  /\ Len(Stored(req[2].h0, req[2].chat_id)) = 2
  /\ Len(Stored(chat_histories, req[2].chat_id)) = 2

\* The pair of request w sits at positions i, i+1 of list h.
PairAt(h, i, w) ==
  /\ i >= 1 /\ i + 1 <= Len(h)
  /\ h[i] = req[w].user_message
  /\ h[i + 1] = req[w].model_message

\* C2: two send_message calls on the same chat id that both succeeded have
\* each appended their own [user, model] pair: the history holds both pairs,
\* each adjacent, at different places, whatever the interleaving and also when
\* the chat id was unseen before both.
C2_BothPairsStored ==
  \A w1, w2 \in Workers :
    (w1 # w2 /\ Done200(w1) /\ Done200(w2) /\ req[w1].chat_id = req[w2].chat_id)
      => LET h == Stored(chat_histories, req[w1].chat_id) IN
         \E i, j \in 1..Len(h) :
           /\ PairAt(h, i, w1)
           /\ PairAt(h, j, w2)
           /\ i # j

\* C3: a successful send_message(chatId, m) with reply r, run with no other
\* request in flight, leaves the history of chatId equal to the previous one
\* followed by (m, isUser=true) and (r, isUser=false), in this order; the
\* response carries r and the timestamp of the model message.
C3_SuccessAppendsPair ==
  \A w \in Workers :
    (Done200(w) /\ req[w].solo)
      => LET c == req[w].form.chat_id
             prev == Stored(req[w].h0, c)
             n == Len(prev)
             h == Stored(chat_histories, c)
         IN /\ Len(h) = n + 2
            /\ SubSeq(h, 1, n) = prev
            /\ h[n + 1].content = req[w].form.message
            /\ h[n + 1].is_user
            /\ h[n + 2].content = req[w].response
            /\ ~h[n + 2].is_user
            /\ h[n + 1].attachment_path = "None"
            /\ h[n + 2].attachment_path = "None"
            /\ req[w].result.body.status = "success"
            /\ req[w].result.body.response = req[w].response
            /\ req[w].result.body.timestamp = IsoFormat(h[n + 2].timestamp)

\* C3 witness: a solo send_message succeeded on a chat id that already held a
\* pair, with a reply other than that of the first pair.
C3_Witness ==
  /\ Done200(2) /\ req[2].solo
  /\ Len(Stored(req[2].h0, req[2].chat_id)) = 2
  /\ Len(chat_histories[req[2].chat_id]) = 4
  /\ chat_histories[req[2].chat_id][4].content
       # chat_histories[req[2].chat_id][2].content

\* C4, on the step that takes the request: a send_message whose message is
\* empty or whitespace-only ends at once with 400 'Empty message', has not
\* called the gateway, and leaves the dictionary as it was.
C4_RejectStep ==
  \A w \in Workers :
    ( /\ req[w].pc = "idle" /\ req'[w].pc # "idle"
      /\ req'[w].kind = "send"
      /\ HasForm(req'[w])
      /\ IsBlank(req'[w].form.message) )
    => /\ req'[w].pc = "done"
       /\ req'[w].result = JsonError(400, "Empty message")
       /\ req'[w].sent = <<>>
       /\ chat_histories' = chat_histories

\* C4: a send_message whose message is empty or whitespace-only is rejected
\* with 400 'Empty message' and mutates no state: no history changes, an
\* unseen chat id is not created, the gateway is not invoked.
C4_BlankRejected ==
  [][C4_RejectStep]_vars
    /\ [](\A w \in Workers :
            req[w].result = JsonError(400, "Empty message")
              => req[w].pc = "done" /\ req[w].sent = <<>>)

\* C4 witness: a whitespace-only message for an unseen chat id was rejected
\* while another chat id held messages.
C4_Witness ==
  \E w \in Workers :
    /\ req[w].result = JsonError(400, "Empty message")
    /\ req[w].form.message = <<" ">>
    /\ req[w].form.chat_id \notin DOMAIN chat_histories
    /\ \E c \in DOMAIN chat_histories : Len(chat_histories[c]) = 2

\* C5: in every state each conversation is in chronological order: a message
\* at an earlier position has a timestamp not later than one at a later
\* position.
C5_Chronological ==
  \A c \in DOMAIN chat_histories :
    \A i, j \in 1..Len(chat_histories[c]) :
      i < j => chat_histories[c][i].timestamp <= chat_histories[c][j].timestamp


\* C6, whole request: a GET /chat/{chatId} run with no other request in flight
\* returns the empty list and adds chatId, alone, to the dictionary when chatId
\* was unseen, and returns the stored list and leaves the dictionary as it was
\* when chatId was known.
C6_ChatWhole ==
  \A w \in Workers :
    (req[w].kind = "chat" /\ req[w].pc = "done" /\ req[w].solo)
      => LET c == req[w].chat_id
             h0 == req[w].h0
         IN IF c \in DOMAIN h0
              THEN req[w].view = h0[c] /\ chat_histories = h0
              ELSE /\ req[w].view = <<>>
                   /\ DOMAIN chat_histories = DOMAIN h0 \cup {c}
                   /\ chat_histories[c] = <<>>
                   /\ \A k \in DOMAIN h0 : chat_histories[k] = h0[k]

\* C6, the message after: a successful send_message run with no other request
\* in flight on a chat id holding the empty list leaves it with 2 messages.
C6_ThenLengthTwo ==
  \A w \in Workers :
    ( /\ Done200(w) /\ req[w].solo
      /\ req[w].chat_id \in DOMAIN req[w].h0
      /\ req[w].h0[req[w].chat_id] = <<>> )
    => Len(chat_histories[req[w].chat_id]) = 2

\* C6, step by step: a GET /chat/{chatId} that found chatId known goes
\* straight to rendering, and the rendering step returns the stored list and
\* changes no history.
C6_ChatSteps ==
  \A w \in Workers :
    /\ ( /\ req[w].pc = "idle" /\ req'[w].kind = "chat"
         /\ req'[w].chat_id \in DOMAIN chat_histories )
       => req'[w].pc = "chat_render" /\ chat_histories' = chat_histories
    /\ (req[w].pc = "chat_render" /\ req'[w].pc = "done")
       => /\ req'[w].view = chat_histories[req[w].chat_id]
          /\ chat_histories' = chat_histories

\* C6: for a chat id never seen, getOrCreate (GET /chat/{chatId}) creates the
\* conversation and returns an empty sequence, and after one subsequent
\* successful handleMessage the sequence has length 2; on a known chat id it
\* returns the stored sequence and changes no history.
C6_GetOrCreate ==
  []C6_ChatWhole /\ []C6_ThenLengthTwo /\ [][C6_ChatSteps]_vars

\* C6 witness: a GET /chat/{chatId} on a chat id holding a pair returned the
\* pair.
C6_Witness ==
  /\ req[2].kind = "chat" /\ req[2].pc = "done" /\ req[2].solo
  /\ Len(req[2].view) = 2
  /\ Len(chat_histories[req[2].chat_id]) = 2

AnyRequest == \E w \in Workers : req[w].pc # "idle"

\* C7, in every state: a request is handled only by a process that is serving
\* with its gateway Ready; after a Failed initialization the constructor has
\* raised (or is about to) and no request was handled.
C7_ServingOnlyWhenReady ==
  /\ AnyRequest => appPc = "serving"
  /\ appPc = "serving" => GatewayState = "Ready"
  /\ GatewayState = "Failed" => appPc \in {"init_model", "exited"} /\ ~AnyRequest
  /\ appPc = "exited" => GatewayState = "Failed" /\ startError.type # "None"

\* C7, step by step: Failed is never left (no retry); from Failed the only
\* thing the application does is exit; an exited process stays exited.
C7_NoRetry ==
  /\ GatewayState = "Failed"
       => /\ initPc' = initPc
          /\ appPc' \in {appPc, "exited"}
          /\ req' = req
  /\ appPc = "exited" => appPc' = "exited"

\* C7: fail-fast startup: if gateway initialization ends in Failed, the
\* construction of ChatApp fails, no request is ever handled by that process
\* and initialization is never retried; a request is only ever handled where
\* initialization reached Ready.
C7_FailFast == []C7_ServingOnlyWhenReady /\ [][C7_NoRetry]_vars

\* C7 witness: the process has exited on a Failed initialization, the service
\* having answered the first calls.
C7_Witness ==
  /\ appPc = "exited" /\ GatewayState = "Failed" /\ ~AnyRequest
  /\ showOutcome = "unreachable"

\* The protocol's transitions.
ProtocolEdges ==
  {<<"Uninitialized", "CheckingService">>,
   <<"CheckingService", "CheckingModel">>,
   <<"CheckingService", "Failed">>,
   <<"CheckingModel", "Ready">>,
   <<"CheckingModel", "Failed">>}

\* C8: initialization follows Uninitialized -> CheckingService ->
\* CheckingModel -> {Ready | Failed} and no other transition; the model check
\* starts only after the service check succeeded; registering the model from
\* the configured path is attempted only when the model is absent; Ready is
\* reached only with the service reachable and the model present or just
\* registered; Ready and Failed are terminal.
C8_InitProtocol ==
  [][ /\ GatewayState' # GatewayState
           => <<GatewayState, GatewayState'>> \in ProtocolEdges
      /\ (GatewayState' = "CheckingModel" /\ GatewayState # "CheckingModel")
           => serviceUp'
      /\ (initPc' = "create" /\ initPc # "create") => ~modelPresent
      /\ (initPc' = "ready" /\ initPc # "ready") => serviceUp' /\ modelPresent'
      /\ initPc \in {"ready", "failed"} => initPc' = initPc
    ]_vars

InitFailure(detail) ==
  [type |-> "RuntimeError", msg |-> <<"Failed to initialize client", detail>>]

\* C9 as amended, step by step: whatever fails, the gateway raises a
\* RuntimeError; its text ends with 'Ollama service is not running' when the
\* first service check failed, and with the backend library's own error when
\* the service stops answering later or refuses the create; the constructor's
\* caller gets a RuntimeError whose text is 'Failed to load model' followed by
\* the gateway's text.
C9_FailureSteps ==
  /\ (initPc = "check_service" /\ initPc' = "failed")
       => ~serviceUp' /\ initError' = InitFailure("Ollama service is not running")
  /\ (initPc = "list_models" /\ initPc' = "failed")
       => ~serviceUp' /\ initError' = InitFailure("ConnectionError")
  /\ (initPc = "create" /\ initPc' = "failed")
       => initError' = InitFailure(IF serviceUp' THEN "ResponseError"
                                   ELSE "ConnectionError")
  /\ (appPc # "exited" /\ appPc' = "exited")
       => startError' = [type |-> "RuntimeError",
                         msg |-> <<"Failed to load model">> \o initError.msg]

C10_SingleTurnPrompt ==
  \A w \in Workers :
    req[w].sent # <<>>
      => /\ Len(req[w].sent) = 1
         /\ req[w].sent[1] = [role |-> "user", content |-> req[w].form.message]

\* C10 witness: two requests with the same raw text, the second sent when the
\* chat id already held the first one's pair, gave the backend the same
\* prompt, leading whitespace included.
C10_Witness ==
  /\ Done200(1) /\ Done200(2) /\ req[2].solo
  /\ req[1].chat_id = req[2].chat_id
  /\ Len(req[2].h0[req[2].chat_id]) = 2
  /\ req[1].form.message = <<" ", "a">>
  /\ req[2].form.message = <<" ", "a">>
  /\ req[1].sent = req[2].sent

\* The four answers of send_message.
EmptyMessage == JsonError(400, "Empty message")

Internal500 == JsonError(500, "Internal server error")

\* C11, the answers: a finished send_message request holds one JSON answer,
\* and which one is fixed by what happened to it: 500 'Internal server error'
\* exactly when a form field is missing, 400 'Empty message' exactly when the
\* form is complete and the message blank, 500 'Failed to generate response'
\* exactly when the gateway was called and gave no reply, and 200 with the
\* reply exactly when the gateway replied; an unfinished request has no
\* answer yet.
C11_OneJsonAnswer ==
  \A w \in Workers :
    /\ (req[w].kind = "send" /\ InFlight(w)) => req[w].result = NoResult
    /\ (req[w].kind = "send" /\ req[w].pc = "done") =>
         LET r == req[w]
             replied == r.model_message # NoMessage
         IN /\ r.result \in {Internal500, EmptyMessage,
                              GenerationFailed,
                              JsonSuccess(r.response,
                                          IsoFormat(r.model_message.timestamp))}
            /\ r.result = Internal500 <=> ~HasForm(r)
            /\ r.result = EmptyMessage
                 <=> (HasForm(r) /\ IsBlank(r.form.message))
            /\ r.result = GenerationFailed
                 <=> (HasForm(r) /\ ~IsBlank(r.form.message) /\ ~replied)
            /\ r.result.code = 200
                 <=> (HasForm(r) /\ ~IsBlank(r.form.message) /\ replied)
            /\ r.result = GenerationFailed => r.sent # <<>>

\* C11, step by step: the answer of a finished request is never replaced, and
\* the step that ends a send_message request with anything but 200 changes no
\* history and creates no chat id.
C11_AnswerSteps ==
  \A w \in Workers :
    /\ req[w].pc = "done" =>
         (req'[w].pc = "done" /\ req'[w].result = req[w].result)
    /\ ( /\ req'[w].kind = "send"
         /\ req[w].pc # "done" /\ req'[w].pc = "done"
         /\ req'[w].result.code # 200 )
       => chat_histories' = chat_histories

\* C11: every send_message request ends with exactly one JSON answer, 400 for
\* a blank message, 500 'Failed to generate response' for a gateway failure,
\* 500 'Internal server error' for a missing form field, 200 otherwise, and
\* every answer other than 200 leaves the histories as they were.
C11_AlwaysOneAnswer == []C11_OneJsonAnswer /\ [][C11_AnswerSteps]_vars

\* C11's case: a request whose form lacks a field has ended with 500
\* 'Internal server error' while the other request's pair is stored.
C11_Witness ==
  /\ Done200(1)
  /\ req[2].kind = "send" /\ req[2].pc = "done" /\ ~HasForm(req[2])
  /\ req[2].result = Internal500
  /\ Len(chat_histories[req[1].chat_id]) = 2

\* The step in which upload request w arrives and is handled.
UploadStep(w) == req[w].pc = "idle" /\ req'[w].kind = "upload"

UploadDone(w) == req[w].kind = "upload" /\ req[w].pc = "done"

\* The request of record r carries a 'file' part.
HasFile(r) == ~r.upload.oversize /\ "file" \in DOMAIN r.upload.files

\* The name has no dot, or what follows its last dot, lowercased, is not in
\* the allow-list.
NoAllowedExtension(name) ==
  ~ \E i \in 1..Len(name) :
      /\ name[i] = "."
      /\ \A j \in (i + 1)..Len(name) : name[j] # "."
      /\ Lower(SubSeq(name, i + 1, Len(name))) \in allowed_extensions

DisallowedType == JsonError(400, "File type not allowed")

C12_RejectStep ==
  \A w \in Workers :
    ( /\ UploadStep(w)
      /\ HasFile(req'[w])
      /\ NoAllowedExtension(req'[w].upload.files.file.filename) )
    => /\ files' = files
       /\ req'[w].pc = "done"
       /\ req'[w].result.code = 400
       /\ req'[w].upload.files.file.filename # <<>>
            => req'[w].result = DisallowedType

\* C12: an upload whose file name has no extension, or whose last extension,
\* lowercased, is not one of txt, pdf, png, jpg, jpeg, gif, is answered with
\* 400 and writes nothing: the file system is as it was before the request.
\* The answer is 'File type not allowed' unless the name is empty.
C12_DisallowedTypeRejected == [][C12_RejectStep]_vars

\* C12's case: with a file already stored, an upload named a.exe has been
\* answered 'File type not allowed'.
C12_Witness ==
  /\ UploadDone(1) /\ req[1].result.code = 200
  /\ UploadDone(2) /\ HasFile(req[2])
  /\ req[2].upload.files.file.filename = <<"a", ".", "e", "x", "e">>
  /\ req[2].result = DisallowedType
  /\ DOMAIN files # {}

\* The path names an entry placed directly in the upload directory.
DirectChild(p) ==
  /\ Len(p) = Len(UPLOAD_FOLDER) + 1
  /\ SubSeq(p, 1, Len(UPLOAD_FOLDER)) = UPLOAD_FOLDER
  /\ p[Len(p)] \notin {<<>>, <<".">>, DotDot}
  /\ \A i \in 1..Len(p[Len(p)]) : p[Len(p)][i] # "/"

TraversalName == <<".", ".", "/", "a", ".">> \o Txt

\* C13: whatever the client's file name, a path separator or '..' in it
\* included, every file that exists was written directly inside the upload
\* directory, and the path a successful upload reports is the upload
\* directory followed by one plain name, which opens as itself.
C13_InsideUploadFolder ==
  /\ \A p \in DOMAIN files : DirectChild(p)
  /\ \A w \in Workers :
       (UploadDone(w) /\ req[w].result.code = 200) =>
         LET path == req[w].result.body.path IN
           /\ DirectChild(path)
           /\ Resolve(path) = path
           /\ path = UPLOAD_FOLDER \o <<req[w].result.body.filename>>

\* C13's case: an upload named ../a.txt has been stored, as uploads/a.txt.
C13_Witness ==
  \E w \in Workers :
    /\ UploadDone(w) /\ req[w].result.code = 200
    /\ req[w].upload.files.file.filename = TraversalName
    /\ UPLOAD_FOLDER \o <<<<"a", ".">> \o Txt>> \in DOMAIN files

\* C14: every file in the upload directory has a name, the sanitized one it
\* was stored under, whose last extension, lowercased, is in the allow-list.
C14_StoredExtensionAllowed ==
  \A p \in DOMAIN files : ~NoAllowedExtension(p[Len(p)])

SaveFailed == JsonError(500, "Failed to save file")

\* C15: an upload whose write fails is answered 500 'Failed to save file' and
\* leaves the file system as it was: no file, whole or partial, appears under
\* the final name, and a file stored there before keeps its bytes.
C15_FailedSaveLeavesNothing ==
  [][\A w \in Workers :
       (UploadStep(w) /\ req'[w].result = SaveFailed) => files' = files]_vars

\* The upload of record r has no content: no 'file' part, an empty file name,
\* or a file of zero bytes.
NoContent(r) ==
  \/ ~HasFile(r)
  \/ r.upload.files.file.filename = <<>>
  \/ r.upload.files.file.content = <<>>

\* C16: an upload without content (no 'file' part, an empty file name, or a
\* file of zero bytes, whatever its name) is answered 400 and writes nothing.
C16_NoContentRejected ==
  [][\A w \in Workers :
       (UploadStep(w) /\ ~req'[w].upload.oversize /\ NoContent(req'[w]))
         => (req'[w].result.code = 400 /\ files' = files)]_vars

\* The list is made of whole [user, model] pairs.
PairsOnly(h) ==
  /\ Len(h) % 2 = 0
  /\ \A i \in 1..Len(h) : h[i].is_user = (i % 2 = 1)

\* C17: at every moment of every interleaving each stored history is made of
\* whole [user, model] pairs (even length, a user message at each odd position
\* and a model message after it), and so is every history a GET /chat request
\* has read: no reader sees a user message without its reply.
C17_ReadersSeeWholePairs ==
  /\ \A c \in DOMAIN chat_histories : PairsOnly(chat_histories[c])
  /\ \A w \in Workers : req[w].kind = "chat" => PairsOnly(req[w].view)

\* C17's case: a GET /chat that arrived while a send_message was in flight
\* has read the history with that request's pair in it.
C17_Witness ==
  /\ req[1].kind = "send" /\ Done200(1)
  /\ req[2].kind = "chat" /\ req[2].pc = "done" /\ ~req[2].solo
  /\ req[2].chat_id = req[1].chat_id
  /\ req[2].view = <<req[1].user_message, req[1].model_message>>

\* C18: histories are append-only under every interleaving: each step leaves
\* every chat id that has a history with a history, and the old list is a
\* prefix of the new one, so no request's create step replaces a list that
\* another request created or filled.
C18_AppendOnly ==
  [][\A c \in DOMAIN chat_histories :
       /\ c \in DOMAIN chat_histories'
       /\ Len(chat_histories'[c]) >= Len(chat_histories[c])
       /\ SubSeq(chat_histories'[c], 1, Len(chat_histories[c]))
            = chat_histories[c]]_vars

\* C19, step by step: a step of a request changes the history of no chat id
\* but the request's own, and a step of an upload changes no history at all.
C19_IsolationSteps ==
  \A w \in Workers :
    req'[w].pc # req[w].pc =>
      /\ \A c \in ChatIds :
           c # req'[w].chat_id =>
             /\ c \in DOMAIN chat_histories' <=> c \in DOMAIN chat_histories
             /\ Stored(chat_histories', c) = Stored(chat_histories, c)
      /\ req'[w].kind = "upload" => chat_histories' = chat_histories

\* C19, the stored messages: none carries an attachment path.
C19_NoAttachmentPath ==
  \A c \in DOMAIN chat_histories :
    \A i \in 1..Len(chat_histories[c]) :
      chat_histories[c][i].attachment_path = "None"

\* C19: conversations are isolated: a send_message or GET /chat for one chat
\* id never changes the history of another, an upload never changes any
\* history, and every stored message has its attachment path absent.
C19_Isolation == []C19_NoAttachmentPath /\ [][C19_IsolationSteps]_vars

\* C19's case: two send_message requests for different chat ids have both
\* stored their pair, each history holding its own request's pair only.
C19_Witness ==
  /\ Done200(1) /\ Done200(2)
  /\ req[1].chat_id # req[2].chat_id
  /\ \A w \in Workers :
       chat_histories[req[w].chat_id]
         = <<req[w].user_message, req[w].model_message>>

====
